---------------------------- MODULE Spec2Model ----------------------------
(***************************************************************************)
(* A model of sim (Simple Image Manager): the orchestration of             *)
(* internal/images/service over an object store (S3) and a metadata store  *)
(* (Couchbase), the download and list commands of internal/runner, and     *)
(* the construction of the service (service.New).                          *)
(*                                                                         *)
(* Every call a handler makes on a store is one atomic step, so that       *)
(* invocations (separate runs of the CLI, or calls on one Service)         *)
(* interleave between calls.  A call on a store either takes effect and    *)
(* reports success, or reports an error and leaves the store as it was.    *)
(* Strings that the code concatenates are sequences of their parts; Go     *)
(* pointers are sequences of length 0 (nil) or 1.                          *)
(***************************************************************************)
EXTENDS Naturals, Sequences, FiniteSets, TLC

\* ------------------------------------------------------------- bounds
\* Invocations that may be in flight at once.
MaxProcs == 2
\* Image ids uuid.New() may hand out in one behaviour.
MaxIDs == 2

Procs == 1..MaxProcs

\* The ids uuid.New() returns, in the order it returns them.
IdPool == <<"id1", "id2", "id3", "id4", "id5">>
IDs == {IdPool[i] : i \in 1..MaxIDs}

\* Request inputs.  A body is n copies of the byte fill.
UploadRequests ==
    {[Name |-> "a.jpg", Body |-> [fill |-> "x", n |-> 1024]],
     [Name |-> "b.jpg", Body |-> [fill |-> "y", n |-> 2500]]}
EmptyBody == [fill |-> "", n |-> 0]
\* Values of the download command's --file flag; one of them names a file
\* like an image id.
FilePaths == {"out.jpg", IdPool[1]}

\* The configured storage (bucket) of the service.
Storage == "sim"

\* The implementations of images.Reader; main.go builds the service with the
\* Couchbase one.
Readers == {"couchbase", "dynamodb"}
Reader == "couchbase"

\* ------------------------------------------------------------- errors
Nil == <<>>
ErrRecordNotFound == <<"no image record found">>
ErrObjectNotFound == <<"no object found in storage">>
\* fmt.Errorf(msg+": %w", err)
Wrap(msg, err) == <<msg>> \o err
\* A nil pointer dereference.
Panic == <<"panic">>
\* An error of an SDK or of the operating system.
SdkErr(what) == <<what>>
\* awserr.Error with a code; the code is the sequence of its words.
AwsErr(code) == <<"awserr">> \o code

NoSuchKey == <<"No", "Such", "Key">>
CodeNotFound == <<"NotFound">>
InternalError == <<"Internal", "Error">>
\* strings.Contains(code, "NotFound")
ContainsNotFound(code) == \E i \in 1..Len(code) : code[i] = "NotFound"
\* awsErr.Code() of an error, <<>> when the error is no awserr.Error
CodeOf(err) == IF Len(err) > 0 /\ Head(err) = "awserr" THEN Tail(err) ELSE <<>>
IsAwsErr(err) == Len(err) > 0 /\ Head(err) = "awserr"

\* ------------------------------------------------------------- helpers
NoKey == <<>>
\* uploadKey without the image id.
\* uuid.New() handing out the id it has handed out before.
uuidNew_Repeats(n) == IdPool[1]

\* uuid.New().String() after n earlier calls: an id not handed out before.
uuidNew(n) == IdPool[n + 1]

uploadKey_NoID(name, imageID) == <<"images/", name>>

uploadKey(name, imageID) == <<"images/", imageID, "/", name>>
bytesToKB(b) == b \div 1024

\* The ETag the object store derives from an object's content.
ETagOf(body) == <<"etag", body.fill, body.n>>

\* NewRecord with the record's Key built from the name alone.
NewRecord_KeyFromName(imageID, resp, key, name) ==
    [ID |-> imageID, CreatedAt |-> <<"now">>, ETag |-> resp.ETag[1], Key |-> <<"images/", name>>,
     Name |-> name, SizeInBytes |-> resp.ContentLength[1], Storage |-> Storage]

NewRecord(imageID, resp, key, name) ==
    [ID |-> imageID, CreatedAt |-> <<"now">>, ETag |-> resp.ETag[1], Key |-> key,
     Name |-> name, SizeInBytes |-> resp.ContentLength[1], Storage |-> Storage]

\* images.Image, the summary of a record that List returns.
Image(rec) == [ID |-> rec.ID, Name |-> rec.Name, SizeInBytes |-> rec.SizeInBytes]

\* A Go slice is <<>> when nil and <<s>> when it holds the sequence s.
NilSlice == <<>>
Elems(slice) == IF slice = NilSlice THEN <<>> ELSE slice[1]

\* The orders in which a database may return the records it holds.
Orders(recs) ==
    LET S == {recs[id] : id \in DOMAIN recs}
    IN {s \in [1..Cardinality(S) -> S] : \A a, b \in 1..Cardinality(S) : a # b => s[a] # s[b]}

\* What a command prints.
NoOut == [text |-> "", items |-> <<>>]

\* ------------------------------------------------------------- New
\* The dependencies service.New may be given, each present or missing (nil).
Deps == [logger : BOOLEAN, reader : BOOLEAN, writer : BOOLEAN, sessionGetter : BOOLEAN]
\* What main.go gives it.
MainDeps == [logger |-> TRUE, reader |-> TRUE, writer |-> TRUE, sessionGetter |-> TRUE]

\* %d of fmt.Errorf
Itoa(n) == <<"0", "1", "2", "3">>[n + 1]

\* Service.validate: the names of the fields that are nil, counted and
\* listed in an error.
validate(s) ==
    LET missingDeps == SelectSeq(<<"logger", "reader", "writer">>, LAMBDA dep : ~s[dep])
    IN IF Len(missingDeps) > 0
       THEN <<"unable to initialize service due to (%d) missing dependencies: %s", Itoa(Len(missingDeps))>>
            \o missingDeps
       ELSE Nil

\* service.New(logger, storage, reader, writer, sessionGetter), d telling
\* which of its dependencies are there: logger.Named dereferences the logger
\* before anything is validated, so that a nil logger makes New panic; the
\* result is the service (a pointer: <<>> or <<s>>) and the error.
New(d, storage) ==
    IF ~d.logger THEN [svc |-> <<>>, err |-> Panic]
    ELSE LET s == [logger |-> TRUE, reader |-> d.reader, writer |-> d.writer,
                   sessionGetter |-> d.sessionGetter, storage |-> storage]
         IN IF validate(s) # Nil THEN [svc |-> <<>>, err |-> validate(s)]
            ELSE [svc |-> <<s>>, err |-> Nil]

\* The service of main.go.
MainService == New(MainDeps, Storage).svc[1]

\* A call an invocation has made: its error, and the bucket and key it named.
Entry(call, err, key) == [call |-> call, err |-> err, bucket |-> IF key = NoKey THEN "" ELSE Storage, key |-> key]

VARIABLES objects, records, sdk, nextID, inv, done, hist

vars == <<objects, records, sdk, nextID, inv, done, hist>>

\* A store that holds nothing.
Empty == [x \in {} |-> x]

Idle ==
    [op |-> "idle", pc |-> "idle", cmd |-> "", flagFile |-> "", flagId |-> "",
     name |-> "", body |-> EmptyBody, id |-> "", key |-> NoKey,
     resp |-> [ETag |-> <<>>, ContentLength |-> <<>>],
     err |-> Nil, ret |-> "", cmdErr |-> Nil, stream |-> EmptyBody, log |-> <<>>,
     reader |-> Reader, rec |-> <<>>, list |-> NilSlice, images |-> NilSlice, out |-> NoOut,
     retry |-> FALSE, svc |-> MainService, deps |-> MainDeps, made |-> <<>>]

\* A handle of the sdk struct: nil, set by the caller, or made from a session
\* by sdk.init; made counts the times sdk.init has made it.
NilHandle == [from |-> "nil", made |-> 0]
Injected == [from |-> "injected", made |-> 0]

\* sdk: new(sdk) in New: the three handles are nil.
NewSdk == [client |-> NilHandle, uploader |-> NilHandle, downloader |-> NilHandle]

Init ==
    /\ objects = Empty
    /\ records = Empty
    /\ sdk = NewSdk
    /\ nextID = 0
    /\ inv = [p \in Procs |-> Idle]
    /\ done = <<>>
    /\ hist = [stored |-> {}, uploaded |-> {}, deleteRan |-> {}, deleted |-> {},
               removed |-> {}, orphans |-> {}, created |-> {}, objectDeleted |-> {},
               removeFailed |-> {}]


\* ------------------------------------------------------------- stores
Put(f, k, v) == (k :> v) @@ f
Drop(f, k) == [x \in (DOMAIN f) \ {k} |-> f[x]]

NilResp == [ETag |-> <<>>, ContentLength |-> <<>>]

\* images.SessionGetter: a session, or an error.
sessionGetter == {Nil, SdkErr("no session")}

\* s.sessionGetter() on the service svc: calling a nil function panics.
callSessionGetter(svc) == IF svc.sessionGetter THEN sessionGetter ELSE {Panic}

\* A panic is no error value: it is not wrapped, it ends the run.
Unwinds(err, e) == IF err = Panic THEN Panic ELSE e

\* withSDKClient, withSDKUploader, withSDKDownloader: the handle made from the
\* session replaces the handle old.
withSDK(old) == [from |-> "session", made |-> old.made + 1]

sdkInit_Replaces(s, opts) == [h \in DOMAIN s |-> IF h \in opts THEN withSDK(s[h]) ELSE s[h]]

\* sdk.init(opts...): each option creates its handle only when it is nil.
sdkInit(s, opts) == [h \in DOMAIN s |-> IF h \in opts /\ s[h] = NilHandle THEN withSDK(s[h]) ELSE s[h]]

\* Uploader.Upload: the object is stored under the key, or an error.
uploaderUpload(objs, key, body) ==
    {[err |-> Nil, objects |-> Put(objs, key, [body |-> body, etag |-> ETagOf(body)])],
     [err |-> SdkErr("upload failed"), objects |-> objs]}

\* Client.HeadObject: the object's metadata (either field may be missing),
\* NotFound when there is no object, or a service error.
clientHeadObject(objs, key) ==
    {[err |-> AwsErr(InternalError), resp |-> NilResp]}
    \cup (IF key \in DOMAIN objs
          THEN {[err |-> Nil, resp |-> [ETag |-> <<objs[key].etag>>, ContentLength |-> <<objs[key].body.n>>]],
                [err |-> Nil, resp |-> [ETag |-> <<>>, ContentLength |-> <<objs[key].body.n>>]],
                [err |-> Nil, resp |-> [ETag |-> <<objs[key].etag>>, ContentLength |-> <<>>]]}
          ELSE {[err |-> AwsErr(CodeNotFound), resp |-> NilResp]})

\* Client.DeleteObject: success (with or without an object under the key),
\* an error saying there is no such object, or a service error.
clientDeleteObject(objs, key) ==
    {[err |-> Nil, objects |-> Drop(objs, key)],
     [err |-> AwsErr(InternalError), objects |-> objs]}
    \cup (IF key \in DOMAIN objs THEN {}
          ELSE {[err |-> AwsErr(NoSuchKey), objects |-> objs],
                [err |-> AwsErr(CodeNotFound), objects |-> objs]})

\* Downloader.Download: the object's bytes written to the stream, NoSuchKey
\* when there is no object, or a service error.
downloaderDownload(objs, key) ==
    {[err |-> AwsErr(InternalError), stream |-> EmptyBody]}
    \cup (IF key \in DOMAIN objs
          THEN {[err |-> Nil, stream |-> objs[key].body]}
          ELSE {[err |-> AwsErr(NoSuchKey), stream |-> EmptyBody]})

\* readerGet wrapping the error that says there is no document.
readerGet_WrapsNotFound(recs, id) ==
    {[err |-> Wrap("unable to get image by id", SdkErr("db")), rec |-> <<>>]}
    \cup (IF id \in DOMAIN recs
          THEN {[err |-> Nil, rec |-> <<recs[id]>>]}
          ELSE {[err |-> Wrap("unable to get image by id", ErrRecordNotFound), rec |-> <<>>]})

\* reader.Service.Get (Couchbase): the record, ErrRecordNotFound itself when
\* there is no document with the id, any other failure wrapped.
readerGet(recs, id) ==
    {[err |-> Wrap("unable to get image by id", SdkErr("db")), rec |-> <<>>]}
    \cup (IF id \in DOMAIN recs
          THEN {[err |-> Nil, rec |-> <<recs[id]>>]}
          ELSE {[err |-> ErrRecordNotFound, rec |-> <<>>]})

\* reader.Service.Get (DynamoDB): the record, ErrRecordNotFound itself when
\* GetItem answers with no item, any other failure wrapped.
dynamoGet(recs, id) ==
    {[err |-> Wrap("unable to get item", SdkErr("db")), rec |-> <<>>]}
    \cup (IF id \in DOMAIN recs
          THEN {[err |-> Nil, rec |-> <<recs[id]>>]}
          ELSE {[err |-> ErrRecordNotFound, rec |-> <<>>]})

\* reader.Service.List (Couchbase): the rows of the query in the order the
\* cluster returns them, ErrRecordNotFound when there is none, a failed query
\* wrapped.
couchbaseList(recs) ==
    {[err |-> Wrap("unable to query cluster", SdkErr("db")), list |-> NilSlice]}
    \cup (IF DOMAIN recs = {}
          THEN {[err |-> ErrRecordNotFound, list |-> NilSlice]}
          ELSE {[err |-> Nil, list |-> <<s>>] : s \in Orders(recs)})

\* dynamoList answering an empty scan as the Couchbase reader answers an
\* empty query.
dynamoList_NotFoundWhenEmpty(recs) ==
    {[err |-> Wrap("unable to scan database", SdkErr("db")), list |-> NilSlice]}
    \cup (IF DOMAIN recs = {}
          THEN {[err |-> ErrRecordNotFound, list |-> NilSlice]}
          ELSE {[err |-> Nil, list |-> <<s>>] : s \in Orders(recs)})

\* reader.Service.List (DynamoDB): the items of the scan, none included, a
\* failed scan wrapped.
dynamoList(recs) ==
    {[err |-> Wrap("unable to scan database", SdkErr("db")), list |-> NilSlice]}
    \cup {[err |-> Nil, list |-> <<s>>] : s \in Orders(recs)}

\* s.reader.List() of a service built with the reader rd.
readerList(rd, recs) == IF rd = "couchbase" THEN couchbaseList(recs) ELSE dynamoList(recs)

\* writer.Service.Create: collection.Insert under record.ID; every failure
\* (the id exists already, the database fails) is wrapped.
writerCreate(recs, rec) ==
    {[err |-> Wrap("unable to insert image record", SdkErr("db")), records |-> recs]}
    \cup (IF rec.ID \in DOMAIN recs THEN {}
          ELSE {[err |-> Nil, records |-> Put(recs, rec.ID, rec)]})

\* writer.Service.Delete: collection.Remove; every failure (no document with
\* the id, the database fails) is wrapped.
writerDelete(recs, id) ==
    IF id \in DOMAIN recs
    THEN {[err |-> Nil, records |-> Drop(recs, id)],
          [err |-> Wrap("unable to delete image record", SdkErr("db")), records |-> recs]}
    ELSE {[err |-> Wrap("unable to delete image record", SdkErr("document not found")), records |-> recs]}


\* ------------------------------------------------------------- Upload
\* A new invocation takes the lowest free slot.
Free(p) == inv[p].pc = "idle" /\ \A q \in Procs : q < p => inv[q].pc # "idle"

\* The invocation in slot p goes on as i; when i has returned, its caller has
\* the answer (done) and the slot is free again.  Nothing else happens between
\* a return and the caller's taking the answer (Finish).
Step(p, i) ==
    /\ done = <<>>
    /\ inv' = [inv EXCEPT ![p] = IF i.pc = "done" THEN Idle ELSE i]
    /\ done' = IF i.pc = "done" THEN <<i>> ELSE <<>>

\* Return going back over the step that has failed instead of ending.
Return_Retry(i, ret, err) ==
    IF err # Nil THEN [i EXCEPT !.err = err] ELSE [i EXCEPT !.pc = "done", !.ret = ret, !.err = err]

\* An invocation ends: it returns ret and err.
Return(i, ret, err) == [i EXCEPT !.pc = "done", !.ret = ret, !.err = err]

\* UploadFailed returning the image id beside the error.
UploadFailed_KeepsID(i, err) == Return(i, i.id, err)

\* Upload's return when a step has failed.
UploadFailed(i, err) == Return(i, "", err)

Logged(i, call, err, key) == [i EXCEPT !.log = Append(@, Entry(call, err, key))]

\* service.go 218-223: the session could not be had.
uploadSessionErr(err) == IF err # Nil THEN Wrap("unable to get AWS session", err) ELSE Nil

\* uploadObjectErr with the uploader's error dropped.
uploadObjectErr_Ignored(err) == Nil

\* service.go 235-239: the uploader failed.
uploadObjectErr(err) == IF err # Nil THEN Wrap("unable to upload image", err) ELSE Nil

\* uploadHeadErr without the check of the answer's ETag and ContentLength.
uploadHeadErr_NoNilCheck(err, resp) ==
    IF err # Nil THEN Wrap("unable to head object", err) ELSE Nil

\* service.go 246-257: HeadObject failed, or answered without an ETag or a
\* ContentLength.
uploadHeadErr(err, resp) ==
    IF err # Nil THEN Wrap("unable to head object", err)
    ELSE IF resp.ETag = <<>> \/ resp.ContentLength = <<>>
         THEN <<"etag and/or content length is nil, unable to save metadata">>
         ELSE Nil

\* service.go 270-274: the writer failed.
uploadCreateErr(err) == IF err # Nil THEN Wrap("unable to create image record", err) ELSE Nil

\* Service.Upload, from its call to the session: sessionGetter, sdk.init, and
\* the new image id and key; i is the invocation as its caller has set it up.
UploadSessionOn(p, i, name, body) ==
    /\ \E serr \in callSessionGetter(i.svc) :
         LET e == Unwinds(serr, uploadSessionErr(serr))
             i0 == Logged([i EXCEPT !.op = "Upload", !.name = name, !.body = body],
                          "sessionGetter", serr, NoKey)
         IN IF e # Nil
            THEN /\ Step(p, UploadFailed(i0, e))
                 /\ UNCHANGED <<sdk, nextID>>
            ELSE /\ nextID < MaxIDs
                 /\ sdk' = sdkInit(sdk, {"client", "uploader"})
                 /\ nextID' = nextID + 1
                 /\ Step(p, [i0 EXCEPT !.pc = "upload", !.id = uuidNew(nextID),
                                  !.key = uploadKey(name, uuidNew(nextID))])
    /\ UNCHANGED <<objects, records, hist>>

\* A call of Service.Upload on the service of main.go.
UploadSession(p, name, body) ==
    /\ Free(p)
    /\ UploadSessionOn(p, inv[p], name, body)

\* s.sdk.uploader.Upload(&uploadInput)
UploadObject(p) ==
    /\ inv[p].op = "Upload" /\ inv[p].pc = "upload"
    /\ \E r \in uploaderUpload(objects, inv[p].key, inv[p].body) :
         LET e == uploadObjectErr(r.err)
             i0 == Logged(inv[p], "uploader.Upload", r.err, inv[p].key)
         IN /\ objects' = r.objects
            /\ hist' = IF r.err = Nil THEN [hist EXCEPT !.stored = @ \cup {inv[p].key}] ELSE hist
            /\ Step(p, IF e # Nil THEN UploadFailed(i0, e)
                                         ELSE [i0 EXCEPT !.pc = "head"])
    /\ UNCHANGED <<records, sdk, nextID>>

\* s.sdk.client.HeadObject(&headInput) and the check of its answer
UploadHead(p) ==
    /\ inv[p].op = "Upload" /\ inv[p].pc = "head"
    /\ \E r \in clientHeadObject(objects, inv[p].key) :
         LET e == uploadHeadErr(r.err, r.resp)
             i0 == Logged([inv[p] EXCEPT !.resp = r.resp], "client.HeadObject", r.err, inv[p].key)
         IN /\ Step(p, IF e # Nil THEN UploadFailed(i0, e)
                                         ELSE [i0 EXCEPT !.pc = "create"])
            /\ hist' = IF e # Nil THEN [hist EXCEPT !.orphans = @ \cup {inv[p].key}] ELSE hist
    /\ UNCHANGED <<objects, records, sdk, nextID>>

\* s.writer.Create(&image) and the return of the image id
UploadCreate(p) ==
    /\ inv[p].op = "Upload" /\ inv[p].pc = "create"
    /\ IF inv[p].resp.ETag = <<>> \/ inv[p].resp.ContentLength = <<>>
       THEN \* *resp.ETag, *resp.ContentLength of a nil pointer: the run panics
            /\ Step(p, UploadFailed(inv[p], Panic))
            /\ UNCHANGED <<records, hist>>
       ELSE LET image == NewRecord(inv[p].id, inv[p].resp, inv[p].key, inv[p].name)
            IN \E r \in writerCreate(records, image) :
                 LET e == uploadCreateErr(r.err)
                     i0 == Logged(inv[p], "writer.Create", r.err, NoKey)
                 IN /\ records' = r.records
                    /\ Step(p, IF e # Nil THEN UploadFailed(i0, e)
                                                 ELSE Return(i0, inv[p].id, Nil))
                    /\ hist' = IF e # Nil THEN [hist EXCEPT !.orphans = @ \cup {inv[p].key}]
                               ELSE [hist EXCEPT !.uploaded = @ \cup {<<inv[p].id, inv[p].body>>},
                                                 !.created = @ \cup {image}]
    /\ UNCHANGED <<objects, sdk, nextID>>


\* ------------------------------------------------------------- Delete
\* deleteGetErr without the case for ErrRecordNotFound.
deleteGetErr_Wrapped(err) ==
    IF err = Nil THEN Nil ELSE Wrap("unable to retrieve image record", err)

\* service.go 109-119: the switch on reader.Get's error.
deleteGetErr(err) ==
    IF err = Nil THEN Nil
    ELSE IF err = ErrRecordNotFound THEN err
    ELSE Wrap("unable to retrieve image record", err)

\* service.go 281-286: deleteObject could not get the session.
deleteSessionErr(err) == IF err # Nil THEN Wrap("unable to get AWS session", err) ELSE Nil

\* deleteObjectErr taking every error for an absent object.
deleteObjectErr_AllAbsent(err) == Nil

\* service.go 293-303: what deleteObject returns for DeleteObject's error.
deleteObjectErr(err) ==
    IF err = Nil THEN Nil
    ELSE IF IsAwsErr(err) /\ CodeOf(err) # NoSuchKey /\ ContainsNotFound(CodeOf(err))
         THEN Nil
         ELSE Wrap("unable to delete object", err)

\* deleteObjectCheck with deleteObject's error dropped.
deleteObjectCheck_Ignored(err) == Nil

\* deleteObjectCheck stopping Delete only when there was no session.
deleteObjectCheck_SessionOnly(err) ==
    IF err # Nil /\ Head(err) = "unable to get AWS session" THEN Wrap("unable to delete object", err) ELSE Nil

\* service.go 122-126: Delete's check of deleteObject's error.
deleteObjectCheck(err) == IF err # Nil THEN Wrap("unable to delete object", err) ELSE Nil

\* service.go 129-137: the switch on writer.Delete's error.
deleteRecordErr(err) ==
    IF err = Nil \/ err = ErrRecordNotFound THEN Nil
    ELSE Wrap("unable to delete record", err)

\* Service.Delete, from its call to s.reader.Get(id); i is the invocation as
\* its caller has set it up.
DeleteGetOn(p, i, id) ==
    /\ \E r \in readerGet(records, id) :
         LET e == deleteGetErr(r.err)
             i0 == Logged([i EXCEPT !.op = "Delete", !.id = id, !.retry = id \in hist.removeFailed],
                          "reader.Get", r.err, NoKey)
         IN /\ Step(p, IF e # Nil THEN Return(i0, "", e)
                                         ELSE [i0 EXCEPT !.pc = "session", !.rec = r.rec, !.key = r.rec[1].Key])
            /\ hist' = IF e = Nil THEN [hist EXCEPT !.deleteRan = @ \cup {id}] ELSE hist
    /\ UNCHANGED <<objects, records, sdk, nextID>>

\* A call of Service.Delete on the service of main.go.
DeleteGet(p, id) ==
    /\ Free(p)
    /\ DeleteGetOn(p, inv[p], id)

\* deleteObject: s.sessionGetter() and s.sdk.init(withSDKClient(sess))
DeleteSession(p) ==
    /\ inv[p].op = "Delete" /\ inv[p].pc = "session"
    /\ \E serr \in callSessionGetter(inv[p].svc) :
         LET e == Unwinds(serr, deleteObjectCheck(deleteSessionErr(serr)))
             i0 == Logged(inv[p], "sessionGetter", serr, NoKey)
         IN IF e # Nil
            THEN Step(p, Return(i0, "", e)) /\ UNCHANGED sdk
            ELSE /\ Step(p, [i0 EXCEPT !.pc = "deleteObject"])
                 /\ sdk' = sdkInit(sdk, {"client"})
    /\ UNCHANGED <<objects, records, nextID, hist>>

\* deleteObject: s.sdk.client.DeleteObject(&input), and Delete's check
DeleteObjectCall(p) ==
    /\ inv[p].op = "Delete" /\ inv[p].pc = "deleteObject"
    /\ \E r \in clientDeleteObject(objects, inv[p].key) :
         LET e == deleteObjectCheck(deleteObjectErr(r.err))
             i0 == Logged(inv[p], "client.DeleteObject", r.err, inv[p].key)
         IN /\ objects' = r.objects
            /\ Step(p, IF e # Nil THEN Return(i0, "", e)
                                         ELSE [i0 EXCEPT !.pc = "writerDelete"])
            /\ hist' = IF e = Nil THEN [hist EXCEPT !.objectDeleted = @ \cup {inv[p].id}] ELSE hist
    /\ UNCHANGED <<records, sdk, nextID>>

\* s.writer.Delete(id) and Delete's return
DeleteRecord(p) ==
    /\ inv[p].op = "Delete" /\ inv[p].pc = "writerDelete"
    /\ \E r \in writerDelete(records, inv[p].id) :
         LET e == deleteRecordErr(r.err)
             i0 == Logged(inv[p], "writer.Delete", r.err, NoKey)
         IN /\ records' = r.records
            /\ Step(p, Return(i0, "", e))
            /\ hist' = [hist EXCEPT
                 !.removed = IF r.err = Nil THEN @ \cup {inv[p].id} ELSE @,
                 !.removeFailed = IF r.err = Nil THEN @ \ {inv[p].id}
                                  ELSE IF inv[p].id \in DOMAIN records THEN @ \cup {inv[p].id} ELSE @,
                 !.deleted = IF e = Nil THEN @ \cup {<<inv[p].id, inv[p].key>>} ELSE @]
    /\ UNCHANGED <<objects, sdk, nextID>>

\* ------------------------------------------------------------- Download
\* downloadGetErr without the case for ErrRecordNotFound.
downloadGetErr_Wrapped(err) ==
    IF err = Nil THEN Nil ELSE Wrap("unable to retrieve image record", err)

\* service.go 147-157: the switch on reader.Get's error.
downloadGetErr(err) ==
    IF err = Nil THEN Nil
    ELSE IF err = ErrRecordNotFound THEN err
    ELSE Wrap("unable to retrieve image record", err)

\* service.go 160-165: the session could not be had.
downloadSessionErr(err) == IF err # Nil THEN Wrap("unable to get AWS session", err) ELSE Nil

\* downloadErr with the downloader's error dropped.
downloadErr_Swallowed(err) == Nil

\* downloadErr without the case for NoSuchKey.
downloadErr_NoCase(err) ==
    IF err = Nil THEN Nil ELSE Wrap("unable to download file", err)

\* service.go 173-180: what Download returns for the downloader's error.
downloadErr(err) ==
    IF err = Nil THEN Nil
    ELSE IF IsAwsErr(err) /\ CodeOf(err) = NoSuchKey THEN ErrObjectNotFound
    ELSE Wrap("unable to download file", err)

\* ------------------------------------------------------------- runner
\* os.Create(path): the file, empty, or an error.
osCreate == {Nil, SdkErr("cannot create")}

\* runner.go 129-132: the ID of the request the download command builds.
downloadRequestID(filePath, imageID) == filePath

\* runner.go 134-138: what the download command returns for Download's error.
runDownloadErr(err) == IF err # Nil THEN Wrap("unable to download image", err) ELSE Nil

\* Download returns err; a download command that has called it returns in turn.
DownloadReturn(i, err) ==
    [Return(i, "", err) EXCEPT !.cmdErr = IF i.cmd = "download" THEN runDownloadErr(err) ELSE Nil]

\* Service.Download(r) with r.ID = id, from its call to s.reader.Get(r.ID);
\* i is the invocation as its caller has set it up.
DownloadFrom(p, i, id) ==
    /\ \E r \in readerGet(records, id) :
         LET e == downloadGetErr(r.err)
             i0 == Logged([i EXCEPT !.op = "Download", !.id = id], "reader.Get", r.err, NoKey)
         IN Step(p, IF e # Nil THEN DownloadReturn(i0, e)
                                      ELSE [i0 EXCEPT !.pc = "session", !.rec = r.rec, !.key = r.rec[1].Key])
    /\ UNCHANGED <<objects, records, sdk, nextID, hist>>

\* A call of Service.Download on the service, as the tests make it.
DownloadGet(p, id) ==
    /\ Free(p)
    /\ DownloadFrom(p, inv[p], id)

\* s.sessionGetter() and s.sdk.init(withSDKDownloader(sess))
DownloadSession(p) ==
    /\ inv[p].op = "Download" /\ inv[p].pc = "session"
    /\ \E serr \in callSessionGetter(inv[p].svc) :
         LET e == Unwinds(serr, downloadSessionErr(serr))
             i0 == Logged(inv[p], "sessionGetter", serr, NoKey)
         IN IF e # Nil
            THEN Step(p, DownloadReturn(i0, e)) /\ UNCHANGED sdk
            ELSE /\ Step(p, [i0 EXCEPT !.pc = "download"])
                 /\ sdk' = sdkInit(sdk, {"downloader"})
    /\ UNCHANGED <<objects, records, nextID, hist>>

\* s.sdk.downloader.Download(r.Stream, &input) and Download's return
DownloadObject(p) ==
    /\ inv[p].op = "Download" /\ inv[p].pc = "download"
    /\ \E r \in downloaderDownload(objects, inv[p].key) :
         LET e == downloadErr(r.err)
             i0 == Logged(inv[p], "downloader.Download", r.err, inv[p].key)
         IN Step(p, DownloadReturn([i0 EXCEPT !.stream = r.stream], e))
    /\ UNCHANGED <<objects, records, sdk, nextID, hist>>

\* Runner.runDownloadCommand with --file filePath and --imageId imageID: the file is
\* created and Service.Download is called with the request.
runDownloadCommand(p, filePath, imageID) ==
    /\ Free(p)
    /\ \E cerr \in osCreate :
         LET i0 == Logged([inv[p] EXCEPT !.cmd = "download", !.flagFile = filePath, !.flagId = imageID],
                          "os.Create", cerr, NoKey)
         IN IF cerr # Nil
            THEN /\ Step(p, [Return(i0, "", Nil) EXCEPT !.cmdErr = Wrap("unable to create file", cerr)])
                 /\ UNCHANGED <<objects, records, sdk, nextID, hist>>
            ELSE DownloadFrom(p, i0, downloadRequestID(filePath, imageID))

\* ------------------------------------------------------------- List
\* listErr without the case for ErrRecordNotFound.
listErr_Wrapped(err) ==
    IF err = Nil THEN Nil ELSE Wrap("unable to list records", err)

\* service.go 189-197: the switch on reader.List's error.
listErr(err) ==
    IF err = Nil THEN Nil
    ELSE IF err = ErrRecordNotFound THEN err
    ELSE Wrap("unable to list records", err)

\* listImages with the images in the opposite order.
listImages_Reversed(recs) == [n \in 1..Len(recs) |-> Image(recs[Len(recs) + 1 - n])]

\* service.go 199-206: the image of every record, in the records' order.
listImages(recs) == [n \in 1..Len(recs) |-> Image(recs[n])]

\* json.MarshalIndent of the list List has returned.
jsonMarshalIndent(images) ==
    IF images = NilSlice THEN [text |-> "null", items |-> <<>>]
    ELSE IF Elems(images) = <<>> THEN [text |-> "[]", items |-> <<>>]
    ELSE [text |-> "[...]", items |-> Elems(images)]

\* runner.go 148-157: what the list command returns for List's error.
runListErr(err) ==
    IF err = Nil \/ err = ErrRecordNotFound THEN Nil
    ELSE Wrap("failed to list images", err)

\* runner.go 148-166: what the list command prints.
runListOut(images, err) ==
    IF err = Nil THEN jsonMarshalIndent(images)
    ELSE IF err = ErrRecordNotFound THEN [text |-> "[]", items |-> <<>>]
    ELSE NoOut

\* List returns images and err; a list command that has called it prints and
\* returns in turn.
ListReturn(i, images, err) ==
    [Return(i, "", err) EXCEPT
       !.images = images,
       !.cmdErr = IF i.cmd = "list" THEN runListErr(err) ELSE Nil,
       !.out = IF i.cmd = "list" THEN runListOut(images, err) ELSE NoOut]

\* service.go 187-208: what List returns for the answer r of reader.List.
serviceList(r) ==
    [images |-> IF listErr(r.err) # Nil THEN NilSlice ELSE <<listImages(Elems(r.list))>>,
     err |-> listErr(r.err)]

\* Service.List of a service built with the reader rd; i is the invocation
\* as its caller has set it up.
ListFrom(p, i, rd) ==
    /\ \E r \in readerList(rd, records) :
         LET i0 == Logged([i EXCEPT !.op = "List", !.reader = rd, !.list = r.list], "reader.List", r.err, NoKey)
         IN Step(p, ListReturn(i0, serviceList(r).images, serviceList(r).err))
    /\ UNCHANGED <<objects, records, sdk, nextID, hist>>

\* A call of Service.List on a service built with the reader rd.
ListCall(p, rd) ==
    /\ Free(p)
    /\ ListFrom(p, inv[p], rd)

\* Runner.runListCommand on a service built with the reader rd: Service.List
\* is called and its answer printed.
runListCommandOn(p, rd) ==
    /\ Free(p)
    /\ ListFrom(p, [inv[p] EXCEPT !.cmd = "list"], rd)

\* Runner.runListCommand as main.go sets it up.
runListCommand(p) == runListCommandOn(p, Reader)

\* ------------------------------------------------------------- behaviours
\* The caller takes the answer of the invocation that has returned.
Finish ==
    /\ done # <<>>
    /\ done' = <<>>
    /\ UNCHANGED <<objects, records, sdk, nextID, inv, hist>>

Upload(p) ==
    \/ \E r \in UploadRequests : UploadSession(p, r.Name, r.Body)
    \/ UploadObject(p)
    \/ UploadHead(p)
    \/ UploadCreate(p)

Delete(p) ==
    \/ \E id \in IDs : DeleteGet(p, id)
    \/ DeleteSession(p)
    \/ DeleteObjectCall(p)
    \/ DeleteRecord(p)

Download(p) ==
    \/ \E id \in IDs : DownloadGet(p, id)
    \/ DownloadSession(p)
    \/ DownloadObject(p)

Next ==
    \/ \E p \in Procs :
          \/ Upload(p)
          \/ Delete(p)
          \/ Download(p)
          \/ \E filePath \in FilePaths, imageID \in IDs : runDownloadCommand(p, filePath, imageID)
          \/ runListCommand(p)
    \/ Finish

Spec == Init /\ [][Next]_vars

\* The same operations, with Service.List also called on services built with
\* either implementation of images.Reader over the same stored records.
NextBackends ==
    \/ Next
    \/ \E p \in Procs, rd \in Readers : ListCall(p, rd)
    \/ \E p \in Procs, rd \in Readers : runListCommandOn(p, rd)

SpecBackends == Init /\ [][NextBackends]_vars

\* A call of service.New with the dependencies d: it returns the service and
\* the error, or panics.
NewCall(p, d) ==
    /\ Free(p)
    /\ Step(p, [Return([inv[p] EXCEPT !.op = "New", !.deps = d], "", New(d, Storage).err)
                 EXCEPT !.made = New(d, Storage).svc])
    /\ UNCHANGED <<objects, records, sdk, nextID, hist>>

\* A call of Upload, Delete, Download or List on a service that New has
\* returned for the dependencies d.
CallOnNew(p, d) ==
    /\ Free(p)
    /\ New(d, Storage).svc # <<>>
    /\ LET i == [inv[p] EXCEPT !.svc = New(d, Storage).svc[1], !.deps = d]
       IN \/ \E r \in UploadRequests : UploadSessionOn(p, i, r.Name, r.Body)
          \/ \E id \in IDs : DeleteGetOn(p, i, id)
          \/ \E id \in IDs : DownloadFrom(p, i, id)
          \/ ListFrom(p, i, Reader)

\* The same operations, with services built by New from any dependencies.
NextNew ==
    \/ Next
    \/ \E p \in Procs, d \in Deps : NewCall(p, d)
    \/ \E p \in Procs, d \in Deps : CallOnNew(p, d)

SpecNew == Init /\ [][NextNew]_vars

\* The steps of the invocation in slot p after its first: each is a call on
\* a store or on the SDK, followed by straight-line code.
Run(p) ==
    \/ UploadObject(p) \/ UploadHead(p) \/ UploadCreate(p)
    \/ DeleteSession(p) \/ DeleteObjectCall(p) \/ DeleteRecord(p)
    \/ DownloadSession(p) \/ DownloadObject(p)

\* Every call an invocation makes returns, and the caller takes the answer of
\* an invocation that has returned.
FairSpec == Spec /\ WF_vars(Finish) /\ \A p \in Procs : SF_vars(Run(p))

\* The service as the unit tests build it: New, then the handles of svc.sdk
\* set by the test before the first call (service_test.go 184-189 sets the
\* uploader and the client), or left as New made them.
InjectedSdks ==
    {NewSdk,
     [NewSdk EXCEPT !.client = Injected, !.uploader = Injected],
     [client |-> Injected, uploader |-> Injected, downloader |-> Injected]}

InitInjected ==
    /\ objects = Empty
    /\ records = Empty
    /\ sdk \in InjectedSdks
    /\ nextID = 0
    /\ inv = [p \in Procs |-> Idle]
    /\ done = <<>>
    /\ hist = [stored |-> {}, uploaded |-> {}, deleteRan |-> {}, deleted |-> {},
               removed |-> {}, orphans |-> {}, created |-> {}, objectDeleted |-> {},
               removeFailed |-> {}]

SpecInjected == InitInjected /\ [][Next]_vars


\* ------------------------------------------------------------- properties
\* The invocations there are: those in flight and the one that has returned.
Invocations == {inv[p] : p \in Procs} \cup {done[k] : k \in 1..Len(done)}
Returned(op) == {i \in {done[k] : k \in 1..Len(done)} : i.op = op}
CallsOf(i) == [n \in 1..Len(i.log) |-> i.log[n].call]
Called(i, call) == \E n \in 1..Len(i.log) : i.log[n].call = call
UploadedIDs == {u[1] : u \in hist.uploaded}

\* C1: Upload writes the record only after the object write and the
\* HeadObject on the same key have both succeeded, in that order, and every
\* record in the metadata store has a Key under which an object was stored.
C1_RecordAfterObject ==
    /\ \A i \in Invocations : \A n \in 1..Len(i.log) :
         i.log[n].call = "writer.Create" =>
           \E a, b \in 1..Len(i.log) :
             /\ a < b /\ b < n
             /\ i.log[a] = [call |-> "uploader.Upload", err |-> Nil, bucket |-> Storage, key |-> i.key]
             /\ i.log[b] = [call |-> "client.HeadObject", err |-> Nil, bucket |-> Storage, key |-> i.key]
    /\ \A id \in DOMAIN records : records[id].Key \in hist.stored

\* An Upload has returned an id: its record has been written.
C1_Witness == \E i \in Returned("Upload") : i.err = Nil /\ Called(i, "writer.Create")

\* C2: Delete reads the record, deletes the object, deletes the record, in
\* that order; writer.Delete is called only after the object deletion has
\* succeeded (or found no object); when the object deletion fails, Delete
\* returns an error without calling writer.Delete, and the record it read is
\* still in the metadata store unless another invocation has removed it.
C2_DeleteOrder ==
    \A i \in Invocations : i.op = "Delete" =>
      /\ Len(i.log) <= 4
      /\ CallsOf(i) = SubSeq(<<"reader.Get", "sessionGetter", "client.DeleteObject", "writer.Delete">>, 1, Len(i.log))
      /\ Called(i, "writer.Delete") =>
           /\ i.log[1].err = Nil /\ i.log[2].err = Nil
           /\ i.log[3].err \in {Nil, AwsErr(NoSuchKey), AwsErr(CodeNotFound)}
      /\ (Len(i.log) >= 3 /\ i.log[3].err = AwsErr(InternalError)) =>
           /\ i.pc = "done" /\ i.err # Nil
      /\ (i.pc = "done" /\ Len(i.err) > 0 /\ Head(i.err) = "unable to delete object") =>
           /\ ~Called(i, "writer.Delete")
           /\ i.id \in DOMAIN records \/ i.id \in hist.removed

\* A Delete has failed at the object deletion and its record is there.
C2_Witness ==
    \E i \in Returned("Delete") :
      /\ Called(i, "client.DeleteObject") /\ i.err # Nil
      /\ Head(i.err) = "unable to delete object"
      /\ i.id \in DOMAIN records

\* C3: once Delete(id) has returned nil for an image Upload created, there
\* is no object under the record's key and no record: HeadObject on the key
\* fails and reader.Get(id) finds nothing, ErrRecordNotFound being its answer
\* whenever the database answers.
C3_DeletedIsGone ==
    \A d \in hist.deleted : d[1] \in UploadedIDs =>
      /\ d[1] \notin DOMAIN records
      /\ d[2] \notin DOMAIN objects
      /\ \A r \in clientHeadObject(objects, d[2]) : r.err # Nil
      /\ \A r \in readerGet(records, d[1]) : r.err # Nil
      /\ \E r \in readerGet(records, d[1]) : r.err = ErrRecordNotFound

\* A Delete of an uploaded image has returned nil.
C3_Witness ==
    \E i \in Returned("Delete") : i.err = Nil /\ <<i.id, i.key>> \in hist.deleted /\ i.id \in UploadedIDs

\* C4: round trip.  A Download of an id that Upload has returned for a body
\* B, with no Delete of that id under way or over, does not miss the record
\* or the object; it returns nil when none of its calls fails, and when it
\* returns nil the bytes in the stream are exactly B.
C4_RoundTrip ==
    \A i \in Returned("Download") : \A u \in hist.uploaded :
      (u[1] = i.id /\ i.id \notin hist.deleteRan) =>
        /\ i.err \notin {ErrRecordNotFound, ErrObjectNotFound}
        /\ (\A n \in 1..Len(i.log) : i.log[n].err = Nil) => i.err = Nil
        /\ i.err = Nil => i.stream = u[2]

\* A Download of an uploaded image has returned nil with the body written.
\* (The download command returns nil with it.)
C4_Witness ==
    \E i \in Returned("Download") : \E u \in hist.uploaded :
      u[1] = i.id /\ i.id \notin hist.deleteRan /\ i.err = Nil /\ i.stream = u[2] /\ i.stream.n > 0

\* C5: when reader.Get fails, Download returns an error, having asked for no
\* session, called no downloader and written nothing to the stream; for
\* ErrRecordNotFound the error it returns is ErrRecordNotFound itself.
C5_DownloadGetFails ==
    \A i \in Returned("Download") : \A n \in 1..Len(i.log) :
      (i.log[n].call = "reader.Get" /\ i.log[n].err # Nil) =>
        /\ i.err # Nil
        /\ n = Len(i.log)
        /\ ~Called(i, "sessionGetter") /\ ~Called(i, "downloader.Download")
        /\ i.stream = EmptyBody
        /\ i.log[n].err = ErrRecordNotFound => i.err = ErrRecordNotFound

\* A Download has returned ErrRecordNotFound.
C5_Witness ==
    \E i \in Returned("Download") : i.err = ErrRecordNotFound /\ i.log[Len(i.log)].call = "reader.Get"

\* C6: the download command calls Service.Download with the request's ID
\* equal to the value of --imageId (and its Stream the file created at the
\* --file path).
C6_DownloadCommandID ==
    \A i \in Returned("Download") : i.cmd = "download" =>
      /\ i.id = i.flagId
      /\ i.log[1] = Entry("os.Create", Nil, NoKey)

\* C7: when Upload returns without error, the id is not empty and the record
\* under it has that ID, the request's Name, the configured storage, the
\* ETag of the stored object and the Key "images/" + id + "/" + Name, which
\* with the configured storage is what the upload and the HeadObject named.
C7_UploadRecord ==
    \A i \in Returned("Upload") : i.err = Nil =>
      /\ i.ret # ""
      /\ i.ret \in DOMAIN records
      /\ LET rec == records[i.ret]
             key == <<"images/", i.ret, "/", i.name>>
         IN /\ rec.ID = i.ret
            /\ rec.Name = i.name
            /\ rec.Storage = Storage
            /\ rec.ETag = ETagOf(i.body) /\ rec.ETag = i.resp.ETag[1]
            /\ rec.Key = key
            /\ [err |-> Nil, rec |-> <<rec>>] \in readerGet(records, i.ret)
            /\ \E a, b \in 1..Len(i.log) :
                 /\ i.log[a] = [call |-> "uploader.Upload", err |-> Nil, bucket |-> Storage, key |-> key]
                 /\ i.log[b] = [call |-> "client.HeadObject", err |-> Nil, bucket |-> Storage, key |-> key]

\* An Upload has returned an id.
C7_Witness == \E i \in Returned("Upload") : i.err = Nil /\ i.ret \in IDs

\* C8: the size in the record Upload creates is HeadObject's ContentLength
\* divided by 1024 (integer division): 1024 is stored as 1.
C8_SizeInKB ==
    \A i \in Returned("Upload") : (i.err = Nil /\ i.ret \in DOMAIN records) =>
      records[i.ret].SizeInBytes = i.resp.ContentLength[1] \div 1024

\* C9: when a step of Upload fails, Upload returns an error with an empty id
\* and makes no later call: a failed call is the last call of its invocation.
C9_UploadStopsAtFailure ==
    \A i \in Invocations : i.op = "Upload" =>
      /\ Len(i.log) <= 4
      /\ CallsOf(i) = SubSeq(<<"sessionGetter", "uploader.Upload", "client.HeadObject", "writer.Create">>, 1, Len(i.log))
      /\ \A n \in 1..Len(i.log) : i.log[n].err # Nil =>
           /\ n = Len(i.log)
           /\ i.pc = "done" /\ i.err # Nil /\ i.ret = ""
      /\ (i.pc = "done" /\ i.err # Nil) => i.ret = ""

\* An Upload has failed after its object was stored.
C9_Witness ==
    \E i \in Returned("Upload") :
      i.err # Nil /\ i.ret = "" /\ Len(i.log) = 4 /\ i.log[4].err # Nil

\* C10: an Upload that has stored its object and then fails (at HeadObject
\* or at writer.Create) deletes nothing: its object stays in the object
\* store, with no record pointing at it, after Upload has returned.
C10_OrphanStays ==
    /\ \A k \in hist.orphans :
         /\ k \in DOMAIN objects
         /\ \A id \in DOMAIN records : records[id].Key # k
    /\ \A i \in Invocations : i.op = "Upload" => ~Called(i, "client.DeleteObject")

\* An Upload has failed and returned, every invocation since is over, and
\* its object is there with no record.
C10_Witness ==
    /\ done = <<>>
    /\ \A p \in Procs : inv[p].pc = "idle"
    /\ \E k \in hist.orphans : k \in DOMAIN objects /\ \A id \in DOMAIN records : records[id].Key # k

\* The calls an operation may make.
CallsIn(op) ==
    IF op = "Upload" THEN {"sessionGetter", "uploader.Upload", "client.HeadObject", "writer.Create"}
    ELSE IF op = "Delete" THEN {"reader.Get", "sessionGetter", "client.DeleteObject", "writer.Delete"}
    ELSE IF op = "Download" THEN {"os.Create", "reader.Get", "sessionGetter", "downloader.Download"}
    ELSE IF op = "List" THEN {"reader.List"}
    ELSE {"os.Create"}
CountOf(i, call) == Cardinality({n \in 1..Len(i.log) : i.log[n].call = call})

\* C11 (no retry): an invocation makes only the calls of its operation and
\* each of them at most once, whatever the call returns.
C11_AtMostOnce ==
    \A i \in Invocations :
      /\ \A n \in 1..Len(i.log) : i.log[n].call \in CallsIn(i.op)
      /\ \A call \in CallsIn(i.op) : CountOf(i, call) <= 1

\* C11 (termination): an invocation that is under way returns.
C11_Terminates == \A p \in Procs : (inv[p].pc # "idle") ~> (inv[p].pc = "idle")

\* C11: no operation retries.  In one invocation Upload calls the uploader,
\* HeadObject and writer.Create at most once each, Delete calls reader.Get,
\* DeleteObject and writer.Delete at most once each, Download calls
\* reader.Get and the downloader at most once each, List calls reader.List
\* at most once; and every invocation returns once its calls have returned.
C11_NoRetry == []C11_AtMostOnce /\ C11_Terminates

\* A Delete has returned the failure of its last call, writer.Delete, having
\* made each of its calls once.
C11_Witness ==
    \E i \in Returned("Delete") :
      /\ i.err # Nil /\ Len(i.log) = 4 /\ i.log[4].call = "writer.Delete" /\ i.log[4].err # Nil
      /\ \A call \in CallsIn("Delete") : CountOf(i, call) = 1

\* C12: when reader.List succeeds with n records, List returns without error
\* exactly n images in the records' order, the i-th with the ID, the Name and
\* the size of the i-th record and with no other field; the records are all
\* those of the metadata store, each once.
C12_ListProjection ==
    \A i \in Returned("List") : i.log[1].err = Nil =>
      LET recs == Elems(i.list)
          imgs == Elems(i.images)
      IN /\ i.err = Nil /\ i.images # NilSlice
         /\ Len(imgs) = Len(recs)
         /\ \A n \in 1..Len(recs) :
              /\ DOMAIN imgs[n] = {"ID", "Name", "SizeInBytes"}
              /\ imgs[n].ID = recs[n].ID
              /\ imgs[n].Name = recs[n].Name
              /\ imgs[n].SizeInBytes = recs[n].SizeInBytes
         /\ {imgs[n].ID : n \in 1..Len(imgs)} = DOMAIN records
         /\ Len(imgs) = Cardinality(DOMAIN records)

\* List has returned the images of two records, the later upload first.
C12_Witness ==
    \E i \in Returned("List") :
      /\ i.err = Nil /\ Len(Elems(i.images)) = 2
      /\ Elems(i.images)[1].ID = IdPool[2] /\ Elems(i.images)[2].ID = IdPool[1]
      /\ Elems(i.images)[1].Name # Elems(i.images)[2].Name

\* C13: the name given during an upload is unique: no two records in the
\* metadata store have the same Name.
C13_UniqueNames ==
    \A a, b \in DOMAIN records : a # b => records[a].Name # records[b].Name

\* The database has answered: the call failed for no other reason than that
\* there is nothing to return.
DbAnswered(err) == err \in {Nil, ErrRecordNotFound}
\* What reader.Get and Service.List may return when the database answers.
GetAnswers(answers) == {r \in answers : DbAnswered(r.err)}
ListAnswers(rd) == {serviceList(r) : r \in {x \in readerList(rd, records) : DbAnswered(x.err)}}

\* C14: for the same stored records the Couchbase reader and the DynamoDB
\* reader return the same from Get and from List, an empty store included:
\* whatever Service.List has returned with one reader it may return with the
\* other (same list, same error).
C14_BackendsAgree ==
    /\ \A id \in IDs \cup FilePaths : GetAnswers(readerGet(records, id)) = GetAnswers(dynamoGet(records, id))
    /\ \A i \in Returned("List") : DbAnswered(i.log[1].err) =>
         \A rd \in Readers : [images |-> i.images, err |-> i.err] \in ListAnswers(rd)

\* C14, amended: the two readers return the same from Get, and Service.List
\* returns the same with either while the store holds a record.  On an empty
\* store it returns (nil, ErrRecordNotFound) with the Couchbase reader and an
\* empty list with no error with the DynamoDB reader; the list command
\* prints "[]" and returns nil with either.
C14_BackendsAgreeButEmpty ==
    /\ \A id \in IDs \cup FilePaths : GetAnswers(readerGet(records, id)) = GetAnswers(dynamoGet(records, id))
    /\ \A i \in Returned("List") : DbAnswered(i.log[1].err) =>
         IF DOMAIN records # {}
         THEN \A rd \in Readers : [images |-> i.images, err |-> i.err] \in ListAnswers(rd)
         ELSE /\ i.reader = "couchbase" => (i.images = NilSlice /\ i.err = ErrRecordNotFound)
              /\ i.reader = "dynamodb" => (i.images = <<<<>>>> /\ i.err = Nil)
              /\ i.cmd = "list" => (i.out = [text |-> "[]", items |-> <<>>] /\ i.cmdErr = Nil)

\* The list command of a service built with the DynamoDB reader has printed
\* "[]" for an empty store, List having returned an empty list and no error.
C14_Witness ==
    \E i \in Returned("List") :
      /\ i.reader = "dynamodb" /\ i.cmd = "list" /\ DOMAIN records = {}
      /\ i.err = Nil /\ i.images = <<<<>>>> /\ i.out.text = "[]"

\* C15: when the metadata store holds no record, reader.List (of the reader
\* main.go builds) returns ErrRecordNotFound, Service.List returns nil and
\* ErrRecordNotFound itself, and the list command prints "[]" and returns
\* nil.
C15_EmptyList ==
    /\ DOMAIN records = {} =>
         \A r \in readerList(Reader, records) : DbAnswered(r.err) => r.err = ErrRecordNotFound
    /\ \A i \in Returned("List") :
         (DOMAIN records = {} /\ i.reader = Reader /\ DbAnswered(i.log[1].err)) =>
           /\ i.log[1].err = ErrRecordNotFound
           /\ i.images = NilSlice /\ i.err = ErrRecordNotFound
           /\ i.cmd = "list" => (i.out = [text |-> "[]", items |-> <<>>] /\ i.cmdErr = Nil)

\* The list command has printed "[]" and returned nil, Service.List having
\* returned ErrRecordNotFound for an empty store.
C15_Witness ==
    \E i \in Returned("List") :
      /\ DOMAIN records = {} /\ i.cmd = "list" /\ i.reader = Reader
      /\ i.err = ErrRecordNotFound /\ i.out.text = "[]" /\ i.cmdErr = Nil

\* C16: reader.Get(id) returns ErrRecordNotFound exactly when no record with
\* the id is stored (it may return that error in no other case, and when the
\* database answers it returns nothing else in that case), and otherwise the
\* stored record, which is the record that was passed to writer.Create for
\* the id.
C16_ReaderGet ==
    /\ \A id \in IDs \cup FilePaths :
         /\ (\E r \in readerGet(records, id) : r.err = ErrRecordNotFound) <=> id \notin DOMAIN records
         /\ GetAnswers(readerGet(records, id)) =
              IF id \in DOMAIN records THEN {[err |-> Nil, rec |-> <<records[id]>>]}
              ELSE {[err |-> ErrRecordNotFound, rec |-> <<>>]}
    /\ \A id \in DOMAIN records : records[id].ID = id /\ records[id] \in hist.created
    /\ \A i \in Invocations : \A n \in 1..Len(i.log) : i.log[n].call = "reader.Get" =>
         /\ i.log[n].err = Nil =>
              /\ i.rec # <<>> /\ i.rec[1].ID = i.id /\ i.rec[1] \in hist.created
              /\ \A c \in hist.created : c.ID = i.id => c = i.rec[1]
         /\ (i.log[n].err = ErrRecordNotFound /\ i.pc = "done") => i.id \notin DOMAIN records

\* reader.Get has found nothing for an id whose record was removed, while an
\* invocation holds the record reader.Get returned for another id, the record
\* Upload created.
C16_Witness ==
    /\ \E i \in Returned("Download") :
         i.log[Len(i.log)] = Entry("reader.Get", ErrRecordNotFound, NoKey) /\ i.id \in hist.removed
    /\ \E p \in Procs :
         /\ inv[p].rec # <<>> /\ inv[p].rec[1] \in hist.created
         /\ inv[p].id \in DOMAIN records /\ inv[p].rec[1] = records[inv[p].id]

\* C17 (what Delete returns): a Delete whose reader.Get has failed returns at
\* once, having made no other call: ErrRecordNotFound itself when that was
\* reader.Get's error, as it is for an id with no record, and the error
\* wrapped otherwise.
C17_DeleteGetFails ==
    \A i \in Invocations : (i.op = "Delete" /\ Len(i.log) > 0 /\ i.log[1].err # Nil) =>
      /\ i.pc = "done" /\ Len(i.log) = 1
      /\ ~Called(i, "sessionGetter") /\ ~Called(i, "client.DeleteObject") /\ ~Called(i, "writer.Delete")
      /\ (i.id \notin DOMAIN records /\ DbAnswered(i.log[1].err)) => i.log[1].err = ErrRecordNotFound
      /\ IF i.log[1].err = ErrRecordNotFound
         THEN i.err = ErrRecordNotFound
         ELSE i.err = <<"unable to retrieve image record">> \o i.log[1].err /\ i.err # ErrRecordNotFound

\* C17 (frame): the step in which such a Delete runs and returns leaves the
\* object store, the metadata store and the SDK handles as they were.
C17_DeleteGetFrame ==
    (done' # <<>> /\ done'[1].op = "Delete" /\ done'[1].log[1].err # Nil) =>
      (objects' = objects /\ records' = records /\ sdk' = sdk)

\* C17: Delete(id) for an id with no record returns ErrRecordNotFound itself
\* and changes nothing: no session is requested, DeleteObject and
\* writer.Delete are not called, both stores are left as they were; the same
\* holds, with a wrapped error, when reader.Get fails for another reason.
C17_DeleteNotFound == []C17_DeleteGetFails /\ [][C17_DeleteGetFrame]_vars

\* Delete has returned ErrRecordNotFound for an id with no record while both
\* stores hold something.
C17_Witness ==
    \E i \in Returned("Delete") :
      /\ i.err = ErrRecordNotFound /\ Len(i.log) = 1 /\ i.id \notin DOMAIN records
      /\ DOMAIN records # {} /\ DOMAIN objects # {}

\* C18: a Download that has read the record returns ErrObjectNotFound when
\* the downloader fails with the code NoSuchKey, as it does when there is no
\* object under the record's key; for any other failure of the downloader it
\* returns another error, which wraps the failure; and Download returns nil
\* only when the downloader has reported success.
C18_DownloadObjectNotFound ==
    \A i \in Returned("Download") :
      /\ \A n \in 1..Len(i.log) : i.log[n].call = "downloader.Download" =>
           LET err == i.log[n].err
           IN /\ i.rec # <<>> /\ i.log[n].key = i.rec[1].Key
              /\ err = AwsErr(NoSuchKey) => i.err = ErrObjectNotFound
              /\ (err # Nil /\ err # AwsErr(NoSuchKey)) =>
                   (i.err = <<"unable to download file">> \o err /\ i.err # ErrObjectNotFound)
              /\ err = Nil => i.err = Nil
      /\ i.err = ErrObjectNotFound =>
           i.log[Len(i.log)] = Entry("downloader.Download", AwsErr(NoSuchKey), i.key)
      /\ i.err = Nil => i.log[Len(i.log)] = Entry("downloader.Download", Nil, i.key)
      /\ (Called(i, "downloader.Download") /\ i.key \notin DOMAIN objects) => i.err # Nil

\* Download has returned ErrObjectNotFound for an id whose record is in the
\* metadata store and whose object is not in the object store.
C18_Witness ==
    \E i \in Returned("Download") :
      /\ i.err = ErrObjectNotFound
      /\ i.id \in DOMAIN records /\ records[i.id].Key \notin DOMAIN objects

\* C19 (state): a record is in the metadata store only if the object under
\* its Key is in the object store or a Delete of its id has passed the
\* deletion of the object.
C19_RecordHasObject ==
    \A id \in DOMAIN records :
      records[id].Key \in DOMAIN objects \/ id \in hist.objectDeleted

\* C19 (steps): a record that a step adds has its object in the object
\* store; a record that a step removes has no object there, a Delete of its
\* id having passed the deletion of the object.
C19_Steps ==
    /\ \A id \in DOMAIN records' \ DOMAIN records :
         records'[id].Key \in DOMAIN objects /\ records'[id].Key \in DOMAIN objects'
    /\ \A id \in DOMAIN records \ DOMAIN records' :
         /\ id \in hist.objectDeleted
         /\ records[id].Key \notin DOMAIN objects /\ records[id].Key \notin DOMAIN objects'
         /\ \E p \in Procs :
              /\ inv[p].op = "Delete" /\ inv[p].id = id /\ Len(inv[p].log) = 3
              /\ inv[p].log[3].call = "client.DeleteObject"
              /\ inv[p].log[3].err \in {Nil, AwsErr(CodeNotFound)}

\* C19: under any interleaving of Upload, Delete, Download and List with
\* failing steps, a record is present only if the object at its Key is
\* present or a Delete of the id has passed its object-deletion step; Upload
\* creates no record before its object exists; Delete removes no record
\* whose object it has not removed or found absent.
C19_CrossStore == []C19_RecordHasObject /\ [][C19_Steps]_vars

\* Two invocations are under way while one record has its object and
\* another, whose Delete has passed the deletion of the object, has none.
C19_Witness ==
    /\ \A p \in Procs : inv[p].pc # "idle"
    /\ \E a, b \in DOMAIN records :
         /\ records[a].Key \in DOMAIN objects
         /\ records[b].Key \notin DOMAIN objects /\ b \in hist.objectDeleted

\* The object store's error says that there is no such object.
SaysAbsent(err) == IsAwsErr(err) /\ (CodeOf(err) = NoSuchKey \/ ContainsNotFound(CodeOf(err)))

\* C20: an object that is already absent does not block Delete: when
\* DeleteObject fails with the code NoSuchKey or with a code containing
\* "NotFound", deleteObject returns nil and Delete goes on to writer.Delete.
C20_AbsentObjectDoesNotBlock ==
    \A i \in Invocations :
      (i.op = "Delete" /\ Len(i.log) >= 3 /\ SaysAbsent(i.log[3].err)) =>
        /\ i.pc = "writerDelete" \/ Called(i, "writer.Delete")
        /\ i.pc = "done" => (Head(i.err) # "unable to delete object")

\* C21: Delete takes a record that is already gone at the record-removal
\* step for success: a Delete that has called writer.Delete and after which
\* there is no record with the id (it has removed it, or another Delete of
\* the id did between this Delete's read and its removal) returns nil.
C21_GoneRecordIsSuccess ==
    \A i \in Returned("Delete") :
      (Called(i, "writer.Delete") /\ i.id \notin DOMAIN records) => i.err = Nil

\* C22: Delete is retry-safe.  A Delete(id) that starts after a Delete(id)
\* has removed the object and failed to remove the record, and whose calls
\* all succeed (DeleteObject succeeding or saying that the object is absent),
\* calls writer.Delete, removes the record and returns nil.
C22_RetrySafe ==
    \A i \in Returned("Delete") :
      (/\ i.retry
       /\ \A n \in 1..Len(i.log) :
            i.log[n].err = Nil \/ (i.log[n].call = "client.DeleteObject" /\ SaysAbsent(i.log[n].err))) =>
        /\ i.err = Nil
        /\ Called(i, "writer.Delete")
        /\ i.id \notin DOMAIN records

\* C23: when HeadObject succeeds but answers without an ETag or without a
\* ContentLength, Upload returns an error (the run does not panic) and an
\* empty id without calling writer.Create; every record that is or was
\* stored has the ETag and the length of an object, never an empty ETag or a
\* zero put in place of a missing value.
C23_NilHeadFields ==
    /\ \A i \in Invocations :
         (/\ i.op = "Upload" /\ Len(i.log) >= 3
          /\ i.log[3] = Entry("client.HeadObject", Nil, i.key)
          /\ (i.resp.ETag = <<>> \/ i.resp.ContentLength = <<>>)) =>
           /\ i.pc = "done" /\ i.err # Nil /\ i.err # Panic /\ i.ret = ""
           /\ Len(i.log) = 3 /\ ~Called(i, "writer.Create")
    /\ \A rec \in hist.created \cup {records[id] : id \in DOMAIN records} :
         /\ \E r \in UploadRequests : rec.ETag = ETagOf(r.Body) /\ rec.SizeInBytes = r.Body.n
         /\ rec.SizeInBytes > 0

\* An Upload has returned an error and no id because HeadObject answered
\* with a ContentLength and no ETag; its object is stored, no record is.
C23_Witness ==
    \E i \in Returned("Upload") :
      /\ i.log[Len(i.log)] = Entry("client.HeadObject", Nil, i.key)
      /\ i.resp.ETag = <<>> /\ i.resp.ContentLength # <<>>
      /\ i.err # Nil /\ i.ret = "" /\ i.key \in DOMAIN objects /\ i.id \notin DOMAIN records

\* The names, among logger, reader and writer, of the dependencies missing
\* in d.
MissingIn(d) == {dep \in {"logger", "reader", "writer"} : ~d[dep]}

\* C24: service.New returns a service only when logger, reader and writer
\* are all present; when one is missing it returns a nil service and an
\* error that tells the number and the names of all that are missing; and
\* no operation on a service New has returned dereferences a missing
\* dependency (no invocation on it panics).
C24_NewValidates ==
    /\ \A i \in Returned("New") :
         IF MissingIn(i.deps) = {}
         THEN i.made # <<>> /\ i.err = Nil
         ELSE /\ i.made = <<>>
              /\ Len(i.err) = 2 + Cardinality(MissingIn(i.deps))
              /\ i.err[2] = Itoa(Cardinality(MissingIn(i.deps)))
              /\ {i.err[n] : n \in 3..Len(i.err)} = MissingIn(i.deps)
    /\ \A i \in Invocations : i.op \in {"Upload", "Delete", "Download", "List"} =>
         /\ New(i.deps, Storage).svc = <<i.svc>>
         /\ i.err # Panic

\* The handles an operation passes to sdk.init.
HandlesOf(op) ==
    CASE op = "Upload" -> {"client", "uploader"}
      [] op = "Delete" -> {"client"}
      [] op = "Download" -> {"downloader"}
      [] OTHER -> {}

\* The calls made through a handle of the sdk struct.
SdkCalls == {"uploader.Upload", "client.HeadObject", "client.DeleteObject", "downloader.Download"}

SessionCalls(i) == {n \in 1..Len(i.log) : i.log[n].call = "sessionGetter"}

\* C25 (never replaced): a step changes a handle only from nil to the handle
\* made from the session, so a handle that is set stays as it is.
C25_HandleKept ==
    \A h \in DOMAIN sdk : sdk'[h] # sdk[h] => (sdk[h] = NilHandle /\ sdk'[h] = withSDK(NilHandle))

\* C25 (lazily): a handle is made only in the step in which an operation that
\* uses it has been given a session.
C25_Lazy ==
    sdk' # sdk =>
      \E p \in Procs :
        LET i == inv'[p]
        IN /\ Len(i.log) = Len(inv[p].log) + 1
           /\ i.log[Len(i.log)].call = "sessionGetter" /\ i.log[Len(i.log)].err = Nil
           /\ \A h \in DOMAIN sdk : sdk'[h] # sdk[h] => h \in HandlesOf(i.op)

\* C25 (at most once): no handle has been made twice, and a handle set by the
\* caller has not been made at all.
C25_MadeOnce ==
    \A h \in DOMAIN sdk : sdk[h] \in {NilHandle, Injected, withSDK(NilHandle)}

\* C25 (the session, when the SDK is used): an operation asks sessionGetter
\* for a session at most once, and before every call it makes through a
\* handle, whether or not the handle was already set.
C25_SessionBeforeSdk ==
    \A i \in Invocations :
      /\ Cardinality(SessionCalls(i)) <= 1
      /\ \A n \in 1..Len(i.log) :
           i.log[n].call \in SdkCalls => \E m \in 1..(n - 1) : i.log[m] = Entry("sessionGetter", Nil, NoKey)

\* C25 (the session, operation by operation): every Upload asks for a session
\* first; Delete and Download ask for it once reader.Get has succeeded, and
\* not at all when reader.Get has failed.
C25_SessionPerOperation ==
    /\ \A i \in Returned("Upload") : SessionCalls(i) # {}
    /\ \A i \in Returned("Delete") \cup Returned("Download") :
         \E n \in 1..Len(i.log) :
           /\ i.log[n].call = "reader.Get"
           /\ IF i.log[n].err = Nil
              THEN SessionCalls(i) = {n + 1}
              ELSE SessionCalls(i) = {}

\* C25 (as stated): every Upload, Download and Delete that has returned has
\* asked sessionGetter for a session.
C25_SessionEveryOperation ==
    \A i \in Returned("Upload") \cup Returned("Delete") \cup Returned("Download") :
      SessionCalls(i) # {}

\* C25, as stated: the handles of the sdk struct are made lazily, each at most
\* once, a handle that is set (injected before the first call, or made by an
\* earlier operation) is left unchanged by every later operation, and a
\* session is requested from sessionGetter on every Upload, Download and
\* Delete.
C25_LazyNeverReplaced ==
    /\ [](C25_MadeOnce /\ C25_SessionBeforeSdk /\ C25_SessionEveryOperation)
    /\ [][C25_HandleKept /\ C25_Lazy]_vars

\* C25, as the code has it: the handles are made lazily, each at most once,
\* and a handle that is set is left unchanged by every later operation; a
\* session is requested, whether or not the handles are set, by every Upload
\* and by every Delete and Download whose reader.Get has succeeded, and by no
\* Delete or Download whose reader.Get has failed.
C25_LazyNeverReplacedSessionWhenUsed ==
    /\ [](C25_MadeOnce /\ C25_SessionBeforeSdk /\ C25_SessionPerOperation)
    /\ [][C25_HandleKept /\ C25_Lazy]_vars

\* An Upload and a Download have both run to their SDK calls on handles set
\* before the first call: each has asked for a session, and the handles are
\* still the injected ones.
C25_Witness ==
    /\ \A h \in DOMAIN sdk : sdk[h] = Injected
    /\ hist.created # {}
    /\ \E i \in Returned("Download") :
         /\ i.err = Nil /\ Called(i, "downloader.Download")
         /\ \E n \in SessionCalls(i) : i.log[n].err = Nil

\* The slots in which an Upload has its image id and key.
Uploading == {p \in Procs : inv[p].op = "Upload" /\ inv[p].id # ""}

\* C26 (fresh ids): the Uploads under way have ids and keys of their own,
\* different from each other's and from those of every record written or
\* stored, and the object key is unused until the Upload itself writes it;
\* the records stored have keys of their own too.
C26_FreshIDs ==
    /\ \A p \in Uploading :
         /\ inv[p].key = <<"images/", inv[p].id, "/", inv[p].name>>
         /\ \A q \in Uploading \ {p} : inv[q].id # inv[p].id /\ inv[q].key # inv[p].key
         /\ inv[p].id \notin DOMAIN records
         /\ \A r \in hist.created : r.ID # inv[p].id /\ r.Key # inv[p].key
         /\ inv[p].pc = "upload" => (inv[p].key \notin DOMAIN objects /\ inv[p].key \notin hist.stored)
    /\ \A a \in DOMAIN records :
         /\ records[a].ID = a
         /\ \A b \in DOMAIN records \ {a} : records[b].Key # records[a].Key

\* C26 (no overwrite): no step changes the object under a key or the record
\* under an id that stays; a step of an Upload removes nothing, and adds at
\* most the object under its own, unused key or the record under its own,
\* unused id, whatever the other invocations are doing.
C26_NoOverwrite ==
    /\ \A k \in DOMAIN objects \cap DOMAIN objects' : objects'[k] = objects[k]
    /\ \A a \in DOMAIN records \cap DOMAIN records' : records'[a] = records[a]
    /\ \A p \in Procs : (inv[p].op = "Upload" /\ inv'[p] # inv[p]) =>
         /\ \/ objects' = objects
            \/ /\ inv[p].pc = "upload" /\ inv[p].key \notin DOMAIN objects
               /\ DOMAIN objects' = DOMAIN objects \cup {inv[p].key}
         /\ \/ records' = records
            \/ /\ inv[p].pc = "create" /\ inv[p].id \notin DOMAIN records
               /\ DOMAIN records' = DOMAIN records \cup {inv[p].id}
               /\ records'[inv[p].id].Key = inv[p].key

\* C26: every Upload uses an id generated for it, so two uploads, with the
\* same Name and interleaved too, write different object keys and different
\* record ids, and an upload never overwrites the object or the record of
\* another image.
C26_UploadsDoNotCollide == []C26_FreshIDs /\ [][C26_NoOverwrite]_vars

\* Two Uploads of the same Name are under way at once: each has stored its
\* object, under a key of its own, and neither has written its record yet.
C26_Witness ==
    \E p \in Uploading : \E q \in Uploading \ {p} :
      /\ inv[p].name = inv[q].name
      /\ inv[p].pc = "create" /\ inv[q].pc = "create"
      /\ inv[p].key # inv[q].key /\ inv[p].id # inv[q].id
      /\ {inv[p].key, inv[q].key} \subseteq DOMAIN objects

=============================================================================
